---- MODULE Spec2Model ----
(***************************************************************************)
(* Model of the PDF page organizer component (src/src/pdf.jsx,             *)
(* PdfPageOrganizerFinal): the React state of the component, the thumbnail *)
(* generation effect with its per-effect cancellation flag, the user       *)
(* handlers (toggle, range delete, drag reorder, delivery mode, reset) and *)
(* the asynchronous export.  Every action is one handler, or the code one  *)
(* asynchronous task runs between two awaits.                              *)
(*                                                                         *)
(* Text is modelled as a sequence of one-character strings, so that        *)
(* String.split, String.trim and Number() are computed, not assumed.       *)
(***************************************************************************)
EXTENDS Integers, Sequences, FiniteSets, TLC

\* ---------------------------------------------------------------- bounds
\* largest page count of an uploaded document in the editing session
MaxPages == 2
\* largest page count of an uploaded document in the export session
MaxExportPages == 3
\* number of uploads followed in one behaviour
MaxUploads == 2
\* number of exports followed in one behaviour
MaxExports == 1
\* number of user edits (toggle, range field, drag, mode) followed in one behaviour
MaxEdits == 2
\* longest range expression explored by SpecRange
MaxExprLen == 4
\* page count of the document SpecRange applies the expressions to
RangeDocPages == 2
\* page count of the document SpecMove reorders
MoveDocPages == 4
\* number of exports followed in one behaviour of SpecBusy
MaxBusyExports == 2

\* names of the PDF files a user can pick
Names == {"a.pdf", "b.pdf"}
\* the characters a range expression is typed from
Chars == {"1", "2", "-", ",", " ", "x"}
\* the range expressions typed in the full session specification
SampleInputs == {<<"2">>, <<"1", "-", "2">>}

\* ------------------------------------------------------- small helpers
Range(s) == {s[i] : i \in 1..Len(s)}

SeqsUpTo(S, n) == UNION {[1..k -> S] : k \in 0..n}

RECURSIVE SelectNotDeleted(_)
\* the entries of a page list with deleted = false, in list order
SelectNotDeleted(pages) ==
  IF pages = <<>> THEN <<>>
  ELSE IF pages[1].deleted THEN SelectNotDeleted(Tail(pages))
       ELSE <<pages[1]>> \o SelectNotDeleted(Tail(pages))

\* ------------------------------------------------- JavaScript text model
\* index of the first occurrence of c in s, 0 when there is none
FirstIndexOf(s, c) ==
  IF \E i \in 1..Len(s) : s[i] = c
  THEN CHOOSE i \in 1..Len(s) : s[i] = c /\ \A j \in 1..(i - 1) : s[j] # c
  ELSE 0

RECURSIVE Split(_, _)
\* String.prototype.split(sep) for a one-character separator
Split(s, sep) ==
  LET k == FirstIndexOf(s, sep)
  IN IF k = 0 THEN <<s>>
     ELSE <<SubSeq(s, 1, k - 1)>> \o Split(SubSeq(s, k + 1, Len(s)), sep)

RECURSIVE Trim(_)
\* String.prototype.trim for the blank character
Trim(s) ==
  IF s = <<>> THEN s
  ELSE IF s[1] = " " THEN Trim(Tail(s))
  ELSE IF s[Len(s)] = " " THEN Trim(SubSeq(s, 1, Len(s) - 1))
  ELSE s

Digits == <<"0", "1", "2", "3", "4", "5", "6", "7", "8", "9">>

IsDigit(c) == \E d \in 1..10 : Digits[d] = c

DigitVal(c) == (CHOOSE d \in 1..10 : Digits[d] = c) - 1

RECURSIVE Decimal(_)
Decimal(s) ==
  IF s = <<>> THEN 0
  ELSE 10 * Decimal(SubSeq(s, 1, Len(s) - 1)) + DigitVal(s[Len(s)])

\* a JavaScript number: NaN, or the integer val
NaN == [nan |-> TRUE, val |-> 0]

Num(n) == [nan |-> FALSE, val |-> n]

\* Number(text) on the characters of Chars and the digits: blanks are
\* trimmed, the empty string is 0, a digit string is its decimal value and
\* anything else is NaN
Number(s) ==
  LET t == Trim(s)
  IN IF t = <<>> THEN Num(0)
     ELSE IF \A i \in 1..Len(t) : IsDigit(t[i]) THEN Num(Decimal(t))
     ELSE NaN

\* the numbers one comma-separated term r adds to the Set toDelete
TermNumbers(r) ==
  IF "-" \in Range(r)
  THEN LET parts == Split(r, "-")
           s == Number(parts[1])
           e == Number(parts[2])
       IN IF s.nan \/ e.nan THEN {} ELSE {Num(i) : i \in s.val..e.val}
  ELSE {Number(r)}

\* the Set toDelete built from the text of the range field
ToDelete(input) ==
  LET ranges == Split(input, ",")
  IN UNION {TermNumbers(ranges[k]) : k \in 1..Len(ranges)}

\* toDelete.has(pageNo)
Has(toDelete, pageNo) == Num(pageNo) \in toDelete

\* ------------------------------------------------------------- the state
VARIABLES
  files,         \* useState files: the uploaded File objects, in upload order
  previews,      \* useState previews: file name -> [pages |-> descriptors]
  deleteInput,   \* useState deleteInput: the text of the range field
  loading,       \* useState loading: an export is running
  downloadMode,  \* useState downloadMode: "zip" or "single"
  gens,          \* the runs of generate(), one per effect that started one
  exp,           \* the run of processPDFs: its position and its closure
  delivered,     \* the downloads triggered by the latest export, in order
  crashed,       \* a state updater threw while rendering: the tree is unmounted
  uploads,       \* number of uploads so far
  exports,       \* number of exports started so far
  edits,         \* number of user edits so far
  lastOp         \* the handler or task step that ran last

vars == <<files, previews, deleteInput, loading, downloadMode, gens, exp,
          delivered, crashed, uploads, exports, edits, lastOp>>

\* the Store with no document: {}
EmptyStore == [n \in {} |-> [pages |-> <<>>]]

\* the id of the descriptor of page i of the file called name
PageId(name, i) == name \o "-page-" \o ToString(i)

\* a descriptor that is born deleted when the range field names its page
NewPageInRange(name, i, e) ==
  [id |-> PageId(name, i), img |-> <<e, name, i>>, pageNo |-> i,
   deleted |-> Has(ToDelete(deleteInput), i)]

\* the descriptor the pipeline appends for page i of file name in run e;
\* img stands for the object URL of the rendered blob, one per render
NewPage(name, i, e) ==
  [id |-> PageId(name, i), img |-> <<e, name, i>>, pageNo |-> i, deleted |-> FALSE]

NoExport == [pc |-> "idle", files |-> <<>>, previews |-> EmptyStore,
             mode |-> "zip", k |-> 0, zip |-> <<>>]

Init ==
  /\ files = <<>>
  /\ previews = EmptyStore
  /\ deleteInput = <<>>
  /\ loading = FALSE
  /\ downloadMode = "zip"
  /\ gens = <<>>
  /\ exp = NoExport
  /\ delivered = <<>>
  /\ crashed = FALSE
  /\ uploads = 0
  /\ exports = 0
  /\ edits = 0
  /\ lastOp = "mount"

\* ------------------------------------------------------------ upload
\* the files a user can pick or drop; numPages is what pdf.js reports for
\* the content of a PDF
Candidates(maxPages) ==
  {[name |-> n, type |-> "application/pdf", numPages |-> k] :
     n \in Names, k \in 1..maxPages}
  \cup {[name |-> "notes.txt", type |-> "text/plain", numPages |-> 0]}

\* a FileList: at least one file, with distinct names
FileLists(maxPages) ==
  {l \in SeqsUpTo(Candidates(maxPages), Cardinality(Names)) :
     /\ Len(l) >= 1
     /\ \A i, j \in 1..Len(l) : i # j => l[i].name # l[j].name}

IsPdf(f) == f.type = "application/pdf"

\* Array.from(list).filter(f => f.type === "application/pdf")
PdfsOf(list) ==
  LET F[k \in 0..Len(list)] ==
        IF k = 0 THEN <<>>
        ELSE IF IsPdf(list[k]) THEN Append(F[k - 1], list[k]) ELSE F[k - 1]
  IN F[Len(list)]

\* the cleanup of the previous effect: cancelled = true in its closure
CancelCurrent(gs) ==
  [e \in DOMAIN gs |-> IF e = Len(gs) THEN [gs[e] EXCEPT !.cancelled = TRUE] ELSE gs[e]]

\* init of generate(): one empty list per file
InitStore(fs) == [n \in {fs[k].name : k \in 1..Len(fs)} |-> [pages |-> <<>>]]

\* a run of generate() that has reached its first await
NewGen(fs) == [files |-> fs, cancelled |-> FALSE, pc |-> "open", fi |-> 1, i |-> 0]

\* the effect on [files]: cleanup of the previous effect, then either
\* generate() up to its first await or setPreviews({})
FilesEffect(fs) ==
  IF Len(fs) > 0
  THEN /\ previews' = InitStore(fs)
       /\ gens' = Append(CancelCurrent(gens), NewGen(fs))
  ELSE /\ previews' = EmptyStore
       /\ gens' = CancelCurrent(gens)

\* handleFiles(list), from the file input or the drop zone, which are
\* rendered only while files is empty
HandleFiles(list) ==
  /\ ~crashed
  /\ Len(files) < 1
  /\ files' = PdfsOf(list)
  /\ FilesEffect(files')
  /\ UNCHANGED <<deleteInput, loading, downloadMode, exp, delivered, crashed>>

\* a Clear button without disabled={loading}
HandleResetWhileBusy ==
  /\ ~crashed
  /\ Len(files) > 0
  /\ files' = <<>>
  /\ deleteInput' = <<>>
  /\ FilesEffect(files')
  /\ UNCHANGED <<loading, downloadMode, exp, delivered, crashed>>

\* handleReset, from the Clear button: rendered while files is not empty,
\* disabled while loading
HandleReset ==
  /\ ~crashed
  /\ Len(files) > 0
  /\ ~loading
  /\ files' = <<>>
  /\ deleteInput' = <<>>
  /\ FilesEffect(files')
  /\ UNCHANGED <<loading, downloadMode, exp, delivered, crashed>>

\* ------------------------------------------------- thumbnail generation
\* run e stops: it returned at the cancellation check, ran to the end, or
\* an await rejected
GenStop(e, how) ==
  gens' = [gens EXCEPT ![e] = [@ EXCEPT !.pc = how, !.files = <<>>, !.fi = 0, !.i = 0]]

\* the head of the page loop for page i of file fi: the cancellation check,
\* then getPage and render are started
GenLoopHead(e, fi, i) ==
  IF gens[e].cancelled
  THEN GenStop(e, "returned")
  ELSE gens' = [gens EXCEPT ![e] = [@ EXCEPT !.pc = "render", !.fi = fi, !.i = i]]

\* arrayBuffer() and getDocument() of the current file resolve (ok) or
\* reject; a PDF has at least one page, so the page loop is entered
GenOpened(e, ok) ==
  /\ ~crashed
  /\ gens[e].pc = "open"
  /\ IF ok THEN GenLoopHead(e, gens[e].fi, 1) ELSE GenStop(e, "failed")
  /\ UNCHANGED <<files, previews, deleteInput, loading, downloadMode, exp,
                 delivered, crashed>>

\* the updater of setPreviews at the end of a page render
AppendPage(prev, name, page) ==
  [prev EXCEPT ![name] = [pages |-> Append(prev[name].pages, page)]]

\* getPage, render and toBlob of the current page resolve (ok) or reject;
\* on success the descriptor is appended with no further look at the
\* cancellation flag, and prev[file.name].pages throws in the updater when
\* the Store has no entry of that name
GenRendered(e, ok) ==
  /\ ~crashed
  /\ gens[e].pc = "render"
  /\ LET g == gens[e]
         name == g.files[g.fi].name
     IN IF ~ok
        THEN /\ GenStop(e, "failed")
             /\ UNCHANGED <<previews, crashed>>
        ELSE /\ gens' = [gens EXCEPT ![e] = [@ EXCEPT !.pc = "raf"]]
             /\ IF name \in DOMAIN previews
                THEN /\ previews' = AppendPage(previews, name, NewPage(name, g.i, e))
                     /\ UNCHANGED crashed
                ELSE /\ crashed' = TRUE
                     /\ UNCHANGED previews
  /\ UNCHANGED <<files, deleteInput, loading, downloadMode, exp,
                 delivered>>

\* the animation frame fires: next page, next file or the end of generate
GenFrame(e) ==
  /\ ~crashed
  /\ gens[e].pc = "raf"
  /\ LET g == gens[e]
     IN IF g.i + 1 <= g.files[g.fi].numPages
        THEN GenLoopHead(e, g.fi, g.i + 1)
        ELSE IF g.fi + 1 <= Len(g.files)
             THEN gens' = [gens EXCEPT ![e] =
                             [@ EXCEPT !.pc = "open", !.fi = g.fi + 1, !.i = 0]]
             ELSE GenStop(e, "done")
  /\ UNCHANGED <<files, previews, deleteInput, loading, downloadMode, exp,
                 delivered, crashed>>

\* --------------------------------------------------------- user edits
\* the names of the loaded files, for which the page grids are rendered
FileNames == {files[k].name : k \in 1..Len(files)}

\* the updater of toggleDelete(file, pageNo)
ToggleUpdater(prev, file, pageNo) ==
  [prev EXCEPT ![file] =
     [pages |-> [k \in 1..Len(prev[file].pages) |->
                   LET p == prev[file].pages[k]
                   IN IF p.pageNo = pageNo THEN [p EXCEPT !.deleted = ~p.deleted] ELSE p]]]

\* toggleDelete(file, pageNo), from the button of a rendered page
ToggleDelete(file, pageNo) ==
  /\ ~crashed
  /\ file \in FileNames
  /\ file \in DOMAIN previews
  /\ \E k \in 1..Len(previews[file].pages) : previews[file].pages[k].pageNo = pageNo
  /\ previews' = ToggleUpdater(previews, file, pageNo)
  /\ UNCHANGED <<files, deleteInput, loading, downloadMode, gens, exp,
                 delivered, crashed>>

\* onChange of the range field, rendered while files is not empty
SetDeleteInput(text) ==
  /\ ~crashed
  /\ Len(files) > 0
  /\ deleteInput' = text
  /\ UNCHANGED <<files, previews, loading, downloadMode, gens, exp,
                 delivered, crashed>>

\* the updater with deleted: toDelete.has(p.pageNo), without `p.deleted ||`
BulkUpdaterAssign(prev, toDelete) ==
  [file \in DOMAIN prev |->
     [pages |-> [k \in 1..Len(prev[file].pages) |->
                   LET p == prev[file].pages[k]
                   IN [p EXCEPT !.deleted = Has(toDelete, p.pageNo)]]]]

\* the updater applied to the list of one document only
BulkUpdaterOneFile(prev, toDelete) ==
  IF DOMAIN prev = {} THEN prev
  ELSE LET only == CHOOSE f \in DOMAIN prev : TRUE
       IN [prev EXCEPT ![only] =
             [pages |-> [k \in 1..Len(prev[only].pages) |->
                           LET p == prev[only].pages[k]
                           IN [p EXCEPT !.deleted = p.deleted \/ Has(toDelete, p.pageNo)]]]]

\* the updater of applyBulkDeleteAll for the Set toDelete
BulkUpdater(prev, toDelete) ==
  [file \in DOMAIN prev |->
     [pages |-> [k \in 1..Len(prev[file].pages) |->
                   LET p == prev[file].pages[k]
                   IN [p EXCEPT !.deleted = p.deleted \/ Has(toDelete, p.pageNo)]]]]

\* applyBulkDeleteAll, on blur of the range field
ApplyBulkDeleteAll ==
  /\ ~crashed
  /\ Len(files) > 0
  /\ IF Trim(deleteInput) = <<>>
     THEN UNCHANGED previews
     ELSE previews' = BulkUpdater(previews, ToDelete(deleteInput))
  /\ UNCHANGED <<files, deleteInput, loading, downloadMode, gens, exp,
                 delivered, crashed>>

\* event.over of a drop outside every sortable item
Null == "null"

\* what splice returns for a missing element
Undefined == [id |-> "undefined", img |-> <<0, "", 0>>, pageNo |-> 0, deleted |-> FALSE]

Max(a, b) == IF a >= b THEN a ELSE b

Min(a, b) == IF a <= b THEN a ELSE b

\* Array.prototype.findIndex by id: a 0-based index, -1 when absent
FindIndex(pages, id) ==
  IF \E k \in 1..Len(pages) : pages[k].id = id
  THEN (CHOOSE k \in 1..Len(pages) :
          pages[k].id = id /\ \A j \in 1..(k - 1) : pages[j].id # id) - 1
  ELSE -1

\* an arrayMove that inserts the element at `to` and leaves it at `from` too
ArrayMoveCopy(array, from, to) ==
  LET n == Len(array)
      ins == Min(Max(to, 0), n)
  IN IF from \in 0..(n - 1)
     THEN SubSeq(array, 1, ins) \o <<array[from + 1]>> \o SubSeq(array, ins + 1, n)
     ELSE array

\* an arrayMove that exchanges the elements at `from` and `to`
ArrayMoveSwap(array, from, to) ==
  LET n == Len(array)
  IN IF from \in 0..(n - 1) /\ to \in 0..(n - 1)
     THEN [k \in 1..n |-> IF k = from + 1 THEN array[to + 1]
                          ELSE IF k = to + 1 THEN array[from + 1]
                          ELSE array[k]]
     ELSE array

\* arrayMove(array, from, to) of @dnd-kit/sortable, on 0-based indices:
\* newArray.splice(to < 0 ? length + to : to, 0, newArray.splice(from, 1)[0])
ArrayMove(array, from, to) ==
  LET n == Len(array)
      toArg == IF to < 0 THEN n + to ELSE to
      start == IF from < 0 THEN Max(n + from, 0) ELSE Min(from, n)
      removed == IF start < n THEN array[start + 1] ELSE Undefined
      rest == IF start < n
              THEN SubSeq(array, 1, start) \o SubSeq(array, start + 2, n)
              ELSE array
      m == Len(rest)
      ins == IF toArg < 0 THEN Max(m + toArg, 0) ELSE Min(toArg, m)
  IN SubSeq(rest, 1, ins) \o <<removed>> \o SubSeq(rest, ins + 1, m)

\* the updater of onDragEnd
MoveUpdater(prev, file, activeId, overId) ==
  LET pages == prev[file].pages
      oldIndex == FindIndex(pages, activeId)
      newIndex == FindIndex(pages, overId)
  IN [prev EXCEPT ![file] = [pages |-> ArrayMove(pages, oldIndex, newIndex)]]

\* what onDragEnd(file, event) makes of the Store
DragResult(prev, file, activeId, overId) ==
  IF overId = Null \/ activeId = overId
  THEN prev
  ELSE MoveUpdater(prev, file, activeId, overId)

\* the ids of the sortable items rendered for a file
RenderedIds(file) ==
  {previews[file].pages[k].id : k \in 1..Len(previews[file].pages)}

\* onDragEnd(file, event): the dragged item is one of the file's sortable
\* items, and so is the item it is dropped over, if there is one
OnDragEnd(file, activeId, overId) ==
  /\ ~crashed
  /\ file \in FileNames
  /\ file \in DOMAIN previews
  /\ activeId \in RenderedIds(file)
  /\ overId \in RenderedIds(file) \cup {Null}
  /\ previews' = DragResult(previews, file, activeId, overId)
  /\ UNCHANGED <<files, deleteInput, loading, downloadMode, gens, exp,
                 delivered, crashed>>

\* the ZIP and Individual buttons, rendered while files is not empty
SetDownloadMode(mode) ==
  /\ ~crashed
  /\ Len(files) > 0
  /\ downloadMode' = mode
  /\ UNCHANGED <<files, previews, deleteInput, loading, gens, exp,
                 delivered, crashed>>

\* ------------------------------------------------------------- export
\* the Download button, rendered while files is not empty and disabled
\* while loading: processPDFs up to its first await, with the files, the
\* previews and the downloadMode of the render it was created in
ProcessPDFs ==
  /\ ~crashed
  /\ Len(files) > 0
  /\ ~loading
  /\ loading' = TRUE
  /\ exp' = [pc |-> "open", files |-> files, previews |-> previews,
             mode |-> downloadMode, k |-> 1, zip |-> <<>>]
  /\ delivered' = <<>>
  /\ UNCHANGED <<files, previews, deleteInput, downloadMode, gens, crashed>>

\* processPDFs with setLoading(false) as its last statement instead of a
\* finally block: a throw leaves loading as it is
ExportEndNoFinally(how) ==
  /\ exp' = [exp EXCEPT !.pc = how]
  /\ loading' = IF how = "failed" THEN loading ELSE FALSE

\* processPDFs ends, by return or by throw: the finally block
ExportEnd(how) ==
  /\ exp' = [exp EXCEPT !.pc = how]
  /\ loading' = FALSE

\* file.arrayBuffer() and PDFDocument.load resolve (ok) or reject
ExportOpened(ok) ==
  /\ ~crashed
  /\ exp.pc = "open"
  /\ IF ok
     THEN /\ exp' = [exp EXCEPT !.pc = "build"]
          /\ UNCHANGED loading
     ELSE ExportEnd("failed")
  /\ UNCHANGED <<files, previews, deleteInput, downloadMode, gens,
                 delivered, crashed>>

\* the pages loop without `if (p.deleted) continue`
CopiedPagesNoSkip(pages) == [j \in 1..Len(pages) |-> pages[j].pageNo]

\* the page numbers copied into newDoc: the pages loop of processPDFs
CopiedPages(pages) ==
  LET live == SelectNotDeleted(pages)
  IN [j \in 1..Len(live) |-> live[j].pageNo]

\* copyPages(pdfDoc, [pageNo - 1]) finds the page in the source
CanCopy(file, pages) ==
  \A j \in 1..Len(pages) : ~pages[j].deleted => pages[j].pageNo \in 1..file.numPages

\* `modified-${file.name}`
ModifiedName(name) == "modified-" \o name

\* a save() that serializes a document without pages as it is
SaveAsIs(copied) == [pages |-> copied, added |-> 0]

\* newDoc.save() of pdf-lib, called without options: addDefaultPage is true,
\* so a document that has no page gets one blank page before it is
\* serialized; the bytes hold the copied pages and the pages added
Save(copied) == [pages |-> copied, added |-> IF Len(copied) = 0 THEN 1 ELSE 0]

\* zip.file(name, data): a new entry, or a new content for the entry of that name
ZipFile(zip, name, data) ==
  LET entry == [name |-> name, pages |-> data.pages, added |-> data.added]
  IN IF \E j \in 1..Len(zip) : zip[j].name = name
     THEN [j \in 1..Len(zip) |-> IF zip[j].name = name THEN entry ELSE zip[j]]
     ELSE Append(zip, entry)

\* a click on an anchor with this download name: a PDF with these bytes
PdfDownload(name, data) ==
  [download |-> name, type |-> "application/pdf", pages |-> data.pages,
   added |-> data.added, entries |-> <<>>]

\* a click on an anchor with the name of the archive and these entries
ZipDownload(zip) ==
  [download |-> "processed-pdfs.zip", type |-> "zip", pages |-> <<>>,
   added |-> 0, entries |-> zip]

\* the test of the mode misspelt: no file is downloaded when it is built
DownloadsEachTypo(mode) == mode = "individual"

\* downloadMode === "single": each file is downloaded as soon as it is built
DownloadsEach(mode) == mode = "single"

\* the archive is downloaded whatever the mode
DownloadsArchiveAlways(mode) == mode \in {"zip", "single"}

\* downloadMode === "zip": the archive is generated and downloaded after the loop
DownloadsArchive(mode) == mode = "zip"

\* the list read from the state of the latest render instead of the closure
ExportPagesLive(file) == previews[file.name].pages

\* previews[file.name].pages as processPDFs reads it: previews is the
\* constant of the render in which the clicked handler was created
ExportPages(file) == exp.previews[file.name].pages

\* the pages of the current file are copied and newDoc.save() resolves (ok),
\* or a copy or the save rejects; then the file is downloaded or added to
\* the archive and the loop goes on to the next file
ExportBuilt(ok) ==
  /\ ~crashed
  /\ exp.pc = "build"
  /\ LET file == exp.files[exp.k]
         pages == ExportPages(file)
         out == Save(CopiedPages(pages))
         fileName == ModifiedName(file.name)
         zip2 == IF DownloadsEach(exp.mode) THEN exp.zip ELSE ZipFile(exp.zip, fileName, out)
     IN IF ~ok \/ ~CanCopy(file, pages)
        THEN /\ ExportEnd("failed")
             /\ UNCHANGED delivered
        ELSE /\ delivered' = IF DownloadsEach(exp.mode)
                             THEN Append(delivered, PdfDownload(fileName, out))
                             ELSE delivered
             /\ IF exp.k < Len(exp.files)
                THEN /\ exp' = [exp EXCEPT !.pc = "open", !.k = exp.k + 1, !.zip = zip2]
                     /\ UNCHANGED loading
                ELSE IF DownloadsArchive(exp.mode)
                     THEN /\ exp' = [exp EXCEPT !.pc = "zipgen", !.zip = zip2]
                          /\ UNCHANGED loading
                     ELSE /\ exp' = [exp EXCEPT !.pc = "done", !.zip = zip2]
                          /\ loading' = FALSE
  /\ UNCHANGED <<files, previews, deleteInput, downloadMode, gens,
                 crashed>>

\* zip.generateAsync resolves (ok) and the archive is downloaded, or rejects
ExportZipped(ok) ==
  /\ ~crashed
  /\ exp.pc = "zipgen"
  /\ delivered' = IF ok THEN Append(delivered, ZipDownload(exp.zip)) ELSE delivered
  /\ ExportEnd(IF ok THEN "done" ELSE "failed")
  /\ UNCHANGED <<files, previews, deleteInput, downloadMode, gens,
                 crashed>>

\* ------------------------------------------------------ specifications
\* the bookkeeping of a specification: the events counted against its
\* bounds, and the name of the step taken last
Book(u, x, d, op) ==
  /\ uploads' = uploads + u
  /\ exports' = exports + x
  /\ edits' = edits + d
  /\ lastOp' = op

UploadStep(maxPages) == \E list \in FileLists(maxPages) : HandleFiles(list)

GenStep ==
  \E e \in DOMAIN gens, ok \in BOOLEAN :
    GenOpened(e, ok) \/ GenRendered(e, ok) \/ (ok /\ GenFrame(e))

\* the page numbers and ids the rendered items of a file can carry
PageNos == 1..Max(Max(MaxPages, MaxExportPages), MoveDocPages)

ToggleStep == \E file \in Names, pageNo \in PageNos : ToggleDelete(file, pageNo)

InputStep == \E text \in SampleInputs \cup {<<>>} : SetDeleteInput(text)

DragStep ==
  \E file \in Names, a \in PageNos, o \in PageNos \cup {0} :
    OnDragEnd(file, PageId(file, a), IF o = 0 THEN Null ELSE PageId(file, o))

ModeStep == \E mode \in {"zip", "single"} : SetDownloadMode(mode)

ExportStep ==
  \E ok \in BOOLEAN : ExportOpened(ok) \/ ExportBuilt(ok) \/ ExportZipped(ok)

\* the editing session: uploads, resets, thumbnail generation and edits
NextSession ==
  \/ uploads < MaxUploads /\ UploadStep(MaxPages) /\ Book(1, 0, 0, "upload")
  \/ HandleReset /\ Book(0, 0, 0, "reset")
  \/ GenStep /\ Book(0, 0, 0, "gen")
  \/ edits < MaxEdits /\ ToggleStep /\ Book(0, 0, 1, "toggle")
  \/ edits < MaxEdits /\ InputStep /\ Book(0, 0, 1, "input")
  \/ edits < MaxEdits /\ ApplyBulkDeleteAll /\ Book(0, 0, 1, "bulk")
  \/ edits < MaxEdits /\ DragStep /\ Book(0, 0, 1, "drag")

SpecSession == Init /\ [][NextSession]_vars

\* one upload, edited and exported
NextExport ==
  \/ uploads < 1 /\ UploadStep(MaxExportPages) /\ Book(1, 0, 0, "mount")
  \/ HandleReset /\ Book(0, 0, 0, "mount")
  \/ GenStep /\ Book(0, 0, 0, "mount")
  \/ edits < MaxEdits /\ ToggleStep /\ Book(0, 0, 1, "mount")
  \/ edits < MaxEdits /\ InputStep /\ Book(0, 0, 1, "mount")
  \/ edits < MaxEdits /\ ApplyBulkDeleteAll /\ Book(0, 0, 1, "mount")
  \/ edits < MaxEdits /\ DragStep /\ Book(0, 0, 1, "mount")
  \/ edits < MaxEdits /\ ModeStep /\ Book(0, 0, 1, "mount")
  \/ exports < MaxExports /\ ProcessPDFs /\ Book(0, 1, 0, "mount")
  \/ ExportStep /\ Book(0, 0, 0, "mount")

SpecExport == Init /\ [][NextExport]_vars

\* a fully generated document and a typed range expression, then range
\* deletes and toggles: every expression of up to MaxExprLen characters
RangeFile == [name |-> "a.pdf", type |-> "application/pdf", numPages |-> RangeDocPages]

InitRange ==
  /\ files = <<RangeFile>>
  /\ previews = [n \in {RangeFile.name} |->
                   [pages |-> [k \in 1..RangeDocPages |-> NewPage(n, k, 1)]]]
  /\ deleteInput \in SeqsUpTo(Chars, MaxExprLen)
  /\ loading = FALSE
  /\ downloadMode = "zip"
  /\ gens = <<[files |-> <<>>, cancelled |-> FALSE, pc |-> "done", fi |-> 0, i |-> 0]>>
  /\ exp = NoExport
  /\ delivered = <<>>
  /\ crashed = FALSE
  /\ uploads = 1
  /\ exports = 0
  /\ edits = 0
  /\ lastOp = "input"

NextRange ==
  \/ ApplyBulkDeleteAll /\ Book(0, 0, 0, "bulk")
  \/ ToggleStep /\ Book(0, 0, 0, "toggle")

SpecRange == InitRange /\ [][NextRange]_vars

\* a fully generated document, then drags and toggles: every order of its
\* pages with every combination of deleted flags
MoveFile == [name |-> "a.pdf", type |-> "application/pdf", numPages |-> MoveDocPages]

InitMove ==
  /\ files = <<MoveFile>>
  /\ previews = [n \in {MoveFile.name} |->
                   [pages |-> [k \in 1..MoveDocPages |-> NewPage(n, k, 1)]]]
  /\ deleteInput = <<>>
  /\ loading = FALSE
  /\ downloadMode = "zip"
  /\ gens = <<[files |-> <<>>, cancelled |-> FALSE, pc |-> "done", fi |-> 0, i |-> 0]>>
  /\ exp = NoExport
  /\ delivered = <<>>
  /\ crashed = FALSE
  /\ uploads = 1
  /\ exports = 0
  /\ edits = 0
  /\ lastOp = "gen"

NextMove ==
  \/ DragStep /\ Book(0, 0, 0, "drag")
  \/ ToggleStep /\ Book(0, 0, 0, "toggle")

SpecMove == InitMove /\ [][NextMove]_vars

\* one upload, its exports and a reset, where every await of processPDFs
\* settles: a promise of the export that is pending is resolved or rejected
NextBusy ==
  \/ uploads < 1 /\ UploadStep(MaxPages) /\ Book(1, 0, 0, "mount")
  \/ HandleReset /\ Book(0, 0, 0, "mount")
  \/ GenStep /\ Book(0, 0, 0, "mount")
  \/ edits < MaxEdits /\ ModeStep /\ Book(0, 0, 1, "mount")
  \/ exports < MaxBusyExports /\ ProcessPDFs /\ Book(0, 1, 0, "mount")
  \/ ExportStep /\ Book(0, 0, 0, "mount")

SpecBusy ==
  Init /\ [][NextBusy]_vars /\ WF_vars(ExportStep /\ Book(0, 0, 0, "mount"))

\* the steps of generate() in which the awaited promise resolves
GenOkStep ==
  \E e \in DOMAIN gens : GenOpened(e, TRUE) \/ GenRendered(e, TRUE) \/ GenFrame(e)

\* uploads, resets and edits around a pipeline in which no decode and no
\* render fails and every pending promise of a run is resolved
NextGen ==
  \/ uploads < MaxUploads /\ UploadStep(MaxPages) /\ Book(1, 0, 0, "upload")
  \/ HandleReset /\ Book(0, 0, 0, "reset")
  \/ GenOkStep /\ Book(0, 0, 0, "gen")
  \/ edits < MaxEdits /\ ToggleStep /\ Book(0, 0, 1, "toggle")
  \/ edits < MaxEdits /\ DragStep /\ Book(0, 0, 1, "drag")

SpecGen ==
  Init /\ [][NextGen]_vars /\ WF_vars(GenOkStep /\ Book(0, 0, 0, "gen"))

\* the whole component
Next == NextSession \/ NextExport \/ NextBusy \/ NextGen

Spec == Init /\ [][Next]_vars

\* ------------------------------------------------------------ claims
\* the outputs an export has produced so far, in the order it produced them:
\* the downloaded PDFs in individual mode, the archive entries in archive mode
Outputs ==
  IF exp.mode = "single"
  THEN [j \in 1..Len(delivered) |->
          [name |-> delivered[j].download, pages |-> delivered[j].pages,
           added |-> delivered[j].added]]
  ELSE exp.zip

\* out is the sequence of page numbers of the entries of pages with
\* deleted = false, in the order of pages
IsLivePagesOf(out, pages) ==
  LET live == {i \in 1..Len(pages) : ~pages[i].deleted}
  IN /\ Len(out) = Cardinality(live)
     /\ \A i \in live : out[Cardinality({h \in live : h < i}) + 1] = pages[i].pageNo

StoredPages ==
  UNION {{<<f, previews[f].pages[k]>> : k \in 1..Len(previews[f].pages)} : f \in DOMAIN previews}

\* the run of generate() that rendered a descriptor
EpochOf(page) == page.img[1]

\* C2: after the document set is replaced, the Store has exactly one list per
\* document of the new set and every descriptor in it was rendered by the
\* current generation epoch
C2_StoreHoldsCurrentEpochOnly ==
  Len(files) > 0 =>
    /\ DOMAIN previews = FileNames
    /\ \A fp \in StoredPages : EpochOf(fp[2]) = Len(gens)

\* C3: once the cancellation flag of a generation epoch is set, the end of
\* the render it had in flight does not change the Store
C3_NoStoreUpdateAfterCancel ==
  [][\A e \in DOMAIN gens :
       (gens[e].cancelled /\ gens[e].pc = "render" /\ gens'[e].pc = "raf")
         => previews' = previews]_vars

\* the generation epoch of the loaded files has run to its end
GenerationDone == Len(files) > 0 /\ gens[Len(gens)].pc = "done"

\* C4: the original page numbers in the list of every loaded document are
\* exactly 1 .. pageCount, each once; stated here for the states in which
\* the generation epoch of the loaded documents has completed, where the
\* lists are as full as they get
C4_ListsHoldEveryPageOnce ==
  GenerationDone =>
    \A k \in 1..Len(files) :
      LET pages == previews[files[k].name].pages
      IN /\ {pages[i].pageNo : i \in 1..Len(pages)} = 1..files[k].numPages
         /\ Len(pages) = files[k].numPages

\* C5: the ids within one list are pairwise distinct, and every descriptor
\* has the id made of its document name and its original page number
C5_IdsDistinctAndStable ==
  \A f \in DOMAIN previews :
    LET pages == previews[f].pages
    IN /\ \A i, j \in 1..Len(pages) : i # j => pages[i].id # pages[j].id
       /\ \A i \in 1..Len(pages) : pages[i].id = PageId(f, pages[i].pageNo)

\* how many entries of pages have this original page number and this flag
CountOf(pages, pageNo, deleted) ==
  Cardinality({k \in 1..Len(pages) :
                 pages[k].pageNo = pageNo /\ pages[k].deleted = deleted})

\* two lists hold the same multiset of (original page number, deleted) pairs
SamePairs(before, after) ==
  /\ Len(before) = Len(after)
  /\ \A k \in 1..Len(before) :
       CountOf(after, before[k].pageNo, before[k].deleted)
         = CountOf(before, before[k].pageNo, before[k].deleted)

\* C6: a drag reorder leaves, in every list, the multiset of (original page
\* number, deleted) pairs as it was, and changes the list of at most one
\* document
C6_ReorderPreservesPairs ==
  [][lastOp' = "drag" =>
       /\ DOMAIN previews' = DOMAIN previews
       /\ \A f \in DOMAIN previews : SamePairs(previews[f].pages, previews'[f].pages)
       /\ Cardinality({f \in DOMAIN previews : previews'[f] # previews[f]}) <= 1]_vars

\* C6 witness: a drag has just put page 2, which is deleted, before page 1
C6_Witness ==
  /\ lastOp = "drag"
  /\ \E f \in DOMAIN previews :
       LET pages == previews[f].pages
       IN /\ Len(pages) = 2
          /\ <<pages[1].pageNo, pages[2].pageNo>> = <<2, 1>>
          /\ <<pages[1].deleted, pages[2].deleted>> = <<TRUE, FALSE>>

\* the ids a caller can pass for a document: those of its pages, one of a
\* page it does not have, and no drop target
CallerIds(file) == {PageId(file, i) : i \in 1..(MaxPages + 1)} \cup {Null}

\* the 0-based position of id in pages, -1 when no entry has it
PositionOf(pages, id) ==
  IF \E k \in 1..Len(pages) : pages[k].id = id
  THEN (CHOOSE k \in 1..Len(pages) : pages[k].id = id) - 1
  ELSE -1

\* C7: a move whose fromId or toId is not the id of a descriptor of the
\* list, or whose ids are at the same position, leaves the Store unchanged;
\* stated for the lists that hold at least one descriptor to drag
C7_MoveOfAbsentIdIsNoOp ==
  \A file \in DOMAIN previews : \A fromId \in CallerIds(file), toId \in CallerIds(file) :
    LET pages == previews[file].pages
    IN (/\ Len(pages) > 0
        /\ \/ PositionOf(pages, fromId) = -1
           \/ PositionOf(pages, toId) = -1
           \/ PositionOf(pages, fromId) = PositionOf(pages, toId))
         => DragResult(previews, file, fromId, toId) = previews

\* the page numbers in a Set of JavaScript numbers
PagesOf(toDelete) == {n.val : n \in {m \in toDelete : ~m.nan /\ m.val >= 1}}

\* a text of digits only, at least one
IsDigits(t) == t # <<>> /\ \A i \in 1..Len(t) : IsDigit(t[i])

\* the page numbers of one term as the range grammar defines them: n for a
\* positive integer, start..end for start-end with start <= end, nothing for
\* any other term
WellFormedTermPages(r) ==
  LET t == Trim(r)
      dashes == {i \in 1..Len(t) : t[i] = "-"}
  IN IF IsDigits(t) THEN {Decimal(t)} \ {0}
     ELSE IF Cardinality(dashes) = 1
     THEN LET d == CHOOSE i \in dashes : TRUE
              s == Trim(SubSeq(t, 1, d - 1))
              e == Trim(SubSeq(t, d + 1, Len(t)))
          IN IF IsDigits(s) /\ IsDigits(e) THEN Decimal(s)..Decimal(e) ELSE {}
     ELSE {}

\* the union of the page numbers of the well-formed terms of an expression
WellFormedPages(input) ==
  LET terms == Split(input, ",")
  IN UNION {WellFormedTermPages(terms[k]) : k \in 1..Len(terms)}

\* C8: the delete-set a range expression is applied with is the union of the
\* page numbers of its well-formed terms, and every descriptor with one of
\* these page numbers is deleted once the expression has been applied
C8_DeleteSetIsUnionOfWellFormedTerms ==
  (lastOp = "bulk" /\ Trim(deleteInput) # <<>>) =>
    /\ PagesOf(ToDelete(deleteInput)) = WellFormedPages(deleteInput)
    /\ \A fp \in StoredPages : fp[2].pageNo \in WellFormedPages(deleteInput) => fp[2].deleted

\* what a second application of the range field makes of a Store
AppliedAgain(prev) ==
  IF Trim(deleteInput) = <<>> THEN prev ELSE BulkUpdater(prev, ToDelete(deleteInput))

\* C9: applying the range field never clears a deleted flag, and applying
\* it a second time changes nothing
C9_RangeDeleteMonotonicIdempotent ==
  [][lastOp' = "bulk" =>
       /\ DOMAIN previews' = DOMAIN previews
       /\ \A f \in DOMAIN previews :
            /\ Len(previews'[f].pages) = Len(previews[f].pages)
            /\ \A k \in 1..Len(previews[f].pages) :
                 previews[f].pages[k].deleted => previews'[f].pages[k].deleted
       /\ AppliedAgain(previews') = previews']_vars

\* C9 witness: the range field has just been applied to a list with a page
\* it deletes and an already deleted page it does not name
C9_Witness ==
  /\ lastOp = "bulk"
  /\ \E fp \in StoredPages : fp[2].deleted /\ fp[2].pageNo \in PagesOf(ToDelete(deleteInput))
  /\ \E fp \in StoredPages : fp[2].deleted /\ fp[2].pageNo \notin PagesOf(ToDelete(deleteInput))

\* the names of the entries of an archive
EntryNames(zip) == {zip[j].name : j \in 1..Len(zip)}

\* C10: an export that ends without a failure has, in archive mode,
\* downloaded one archive "processed-pdfs.zip" with one entry
\* "modified-" + name per document and no single file, and nothing before
\* the last document was processed; in individual mode it has downloaded one
\* file "modified-" + name per document, in upload order, and no archive
C10_DeliveryFollowsMode ==
  LET n == Len(exp.files)
  IN /\ (exp.mode = "zip" /\ exp.pc \in {"open", "build", "zipgen", "failed"})
          => delivered = <<>>
     /\ (exp.mode = "zip" /\ exp.pc = "done") =>
          /\ Len(delivered) = 1
          /\ delivered[1].download = "processed-pdfs.zip"
          /\ delivered[1].type = "zip"
          /\ Len(delivered[1].entries) = n
          /\ EntryNames(delivered[1].entries)
               = {"modified-" \o exp.files[k].name : k \in 1..n}
     /\ exp.mode = "single" =>
          /\ \A j \in 1..Len(delivered) :
               /\ j <= n
               /\ delivered[j].type = "application/pdf"
               /\ delivered[j].download = "modified-" \o exp.files[j].name
          /\ exp.pc = "done" => Len(delivered) = n

\* C10 witness: an export of two documents in individual mode has ended
\* with two downloads
C10_Witness ==
  /\ exp.pc = "done"
  /\ exp.mode = "single"
  /\ Len(exp.files) = 2
  /\ Len(delivered) = 2

\* the number of pages of an output document: the pages copied from the
\* source and the pages save() added
PageCount(o) == Len(o.pages) + o.added

\* the list of document j of a running or ended export has no descriptor
\* with deleted = false
AllDeleted(j) == SelectNotDeleted(exp.previews[exp.files[j].name].pages) = <<>>

\* C11: the output written for a document whose descriptors are all deleted,
\* or that has no descriptor, is a document of zero pages, written and
\* delivered like the outputs of the other documents: an export that ends
\* without a failure has written one output per document
C11_AllDeletedGivesZeroPageOutput ==
  /\ \A j \in 1..Len(Outputs) :
       (j <= Len(exp.files) /\ AllDeleted(j)) => PageCount(Outputs[j]) = 0
  /\ exp.pc = "done" => Len(Outputs) = Len(exp.files)

FailedDocument ==
  IF exp.pc = "failed" /\ (exp.mode = "single" \/ Len(exp.zip) < Len(exp.files))
  THEN exp.k
  ELSE 0

\* C13: when the export of one document fails, every other document of the
\* batch is still delivered: as its own file in individual mode, inside the
\* delivered archive in archive mode, and there is no output for the
\* document that failed
C13_FailureAbortsOneDocumentOnly ==
  FailedDocument # 0 =>
    LET others == {"modified-" \o exp.files[j].name :
                     j \in (1..Len(exp.files)) \ {FailedDocument}}
    IN /\ exp.mode = "single"
            => {delivered[j].download : j \in 1..Len(delivered)} = others
       /\ (exp.mode = "zip" /\ others # {})
            => /\ Len(delivered) = 1
               /\ EntryNames(delivered[1].entries) = others

\* C14: a page render that fails does not end the run of the pipeline: the
\* run that was rendering a page goes on to the next page, the next document
\* or its normal end, with or without a descriptor for the page
C14_RenderFailureIsIsolated ==
  [][\A e \in DOMAIN gens :
       (gens[e].pc = "render" /\ ~gens[e].cancelled) => gens'[e].pc # "failed"]_vars

\* after is before with the element at position from moved to position to
\* (1-based): the elements between the two positions shift by one towards
\* from, and the elements outside keep their positions
MovedAsClaimed(before, after, from, to) ==
  /\ Len(after) = Len(before)
  /\ after[to] = before[from]
  /\ \A k \in (1..Len(before)) \ {to} :
       after[k] = IF from < to /\ from <= k /\ k < to THEN before[k + 1]
                  ELSE IF to < from /\ to < k /\ k <= from THEN before[k - 1]
                  ELSE before[k]

\* C15: a move between two ids that are at different positions of a list
\* puts the from element at the position the to element had, shifts the
\* elements in between by one position towards the place it left, and leaves
\* the other elements and the other lists as they were
C15_MovePlacesFromAtTo ==
  \A file \in DOMAIN previews :
    LET pages == previews[file].pages
    IN \A from, to \in 1..Len(pages) :
         from # to =>
           LET moved == DragResult(previews, file, pages[from].id, pages[to].id)
           IN /\ DOMAIN moved = DOMAIN previews
              /\ \A g \in DOMAIN previews \ {file} : moved[g] = previews[g]
              /\ MovedAsClaimed(pages, moved[file].pages, from, to)

\* C15 witness: a drag has just moved page 1 from the front to the third
\* position of a list of four, pages 2 and 3 shifting left and page 4 staying
C15_Witness ==
  /\ lastOp = "drag"
  /\ \E f \in DOMAIN previews :
       LET pages == previews[f].pages
       IN /\ Len(pages) = 4
          /\ [k \in 1..4 |-> pages[k].pageNo] = <<2, 3, 1, 4>>

\* C16: applying the range field with a delete-set S sets, in the list of
\* every document of the Store, deleted to (deleted or page number in S) and
\* leaves the documents, the order of every list and the id, page number and
\* thumbnail of every descriptor as they were; a blank field changes nothing
C16_RangeDeleteIsUniform ==
  [][lastOp' = "bulk" =>
       LET S == PagesOf(ToDelete(deleteInput))
       IN IF Trim(deleteInput) = <<>>
          THEN previews' = previews
          ELSE /\ DOMAIN previews' = DOMAIN previews
               /\ files' = files
               /\ \A f \in DOMAIN previews :
                    /\ Len(previews'[f].pages) = Len(previews[f].pages)
                    /\ \A k \in 1..Len(previews[f].pages) :
                         LET p == previews[f].pages[k]
                             q == previews'[f].pages[k]
                         IN /\ q.deleted = (p.deleted \/ p.pageNo \in S)
                            /\ q.id = p.id
                            /\ q.pageNo = p.pageNo
                            /\ q.img = p.img]_vars

\* C16 witness: the range field has just been applied to a Store of two
\* documents, and each has a page it deleted and a page it left
C16_Witness ==
  /\ lastOp = "bulk"
  /\ Cardinality(DOMAIN previews) = 2
  /\ \A f \in DOMAIN previews :
       LET pages == previews[f].pages
       IN /\ \E k \in 1..Len(pages) :
               pages[k].deleted /\ pages[k].pageNo \in PagesOf(ToDelete(deleteInput))
          /\ \E k \in 1..Len(pages) : ~pages[k].deleted

\* C17: toggleDelete(file, pageNo) flips the deleted flag of exactly one
\* descriptor, the one of that document with that page number, and changes
\* nothing else; with no such descriptor it changes nothing; applied twice
\* it restores the Store
C17_ToggleFlipsExactlyOne ==
  \A file \in DOMAIN previews : \A pageNo \in 1..(MaxPages + 1) :
    LET pages == previews[file].pages
        toggled == ToggleUpdater(previews, file, pageNo)
        changed == {k \in 1..Len(pages) : toggled[file].pages[k] # pages[k]}
    IN /\ DOMAIN toggled = DOMAIN previews
       /\ \A g \in DOMAIN previews \ {file} : toggled[g] = previews[g]
       /\ Len(toggled[file].pages) = Len(pages)
       /\ Cardinality(changed)
            = IF \E k \in 1..Len(pages) : pages[k].pageNo = pageNo THEN 1 ELSE 0
       /\ \A k \in changed :
            /\ pages[k].pageNo = pageNo
            /\ toggled[file].pages[k] = [pages[k] EXCEPT !.deleted = ~pages[k].deleted]
       /\ ToggleUpdater(toggled, file, pageNo) = previews

\* C18: a step of the pipeline that changes the Store appends one descriptor
\* at the end of the list of one loaded document; the descriptor is the one
\* of the next page of that list (page k + 1 after pages 1..k), with
\* deleted = false, and every document uploaded before that one already has
\* all of its pages
C18_AppendsInUploadAndPageOrder ==
  [][(lastOp' = "gen" /\ previews' # previews) =>
       \E k \in 1..Len(files) :
         LET f == files[k].name
             pages == previews[f].pages
             after == previews'[f].pages
         IN /\ DOMAIN previews' = DOMAIN previews
            /\ \A g \in DOMAIN previews \ {f} : previews'[g] = previews[g]
            /\ Len(after) = Len(pages) + 1
            /\ SubSeq(after, 1, Len(pages)) = pages
            /\ after[Len(after)].pageNo = Len(pages) + 1
            /\ ~after[Len(after)].deleted
            /\ \A j \in 1..(k - 1) :
                 Len(previews[files[j].name].pages) = files[j].numPages]_vars

\* the runs of the pipeline that have started the render of a page
\* (getPage, render, toBlob) and are waiting for it to end
RendersInFlight == {e \in DOMAIN gens : gens[e].pc = "render"}

\* C19: at most one page render is in flight, in every state, whether or
\* not the run that started it has been cancelled
C19_OneRenderInFlight == Cardinality(RendersInFlight) <= 1

ListsComplete ==
  \A k \in 1..Len(files) :
    /\ files[k].name \in DOMAIN previews
    /\ LET pages == previews[files[k].name].pages
       IN /\ Len(pages) = files[k].numPages
          /\ {pages[i].pageNo : i \in 1..Len(pages)} = 1..files[k].numPages

\* C21: when no decode and no render fails and the pending promises are
\* resolved, a document set that is loaded and no longer changed, in a
\* component that stays mounted, has its generation epoch completed from
\* some point on, with complete lists from then on
C21_GenerationCompletes ==
  <>[](Len(files) > 0 /\ ~crashed) => <>[](GenerationDone /\ ListsComplete)

\* C22: a descriptor the pipeline appends starts with deleted = false,
\* whatever range expressions were applied before, and the append leaves the
\* descriptors that were in the Store as they were
C22_AppendedPagesStartLive ==
  [][lastOp' = "gen" =>
       \A f \in DOMAIN previews \cap DOMAIN previews' :
         LET old == previews[f].pages
             new == previews'[f].pages
         IN /\ Len(new) >= Len(old)
            /\ SubSeq(new, 1, Len(old)) = old
            /\ \A k \in (Len(old) + 1)..Len(new) : ~new[k].deleted]_vars

\* C22 witness: the pipeline has just appended page 2 of a document, not
\* deleted, after the range field, which names page 2, was applied to the
\* first pages of two documents
C22_Witness ==
  /\ lastOp = "gen"
  /\ 2 \in PagesOf(ToDelete(deleteInput))
  /\ Cardinality(DOMAIN previews) = 2
  /\ \A f \in DOMAIN previews :
       \E k \in 1..Len(previews[f].pages) :
         previews[f].pages[k].pageNo = 1 /\ previews[f].pages[k].deleted
  /\ \E f \in DOMAIN previews :
       LET pages == previews[f].pages
       IN Len(pages) > 1 /\ pages[Len(pages)].pageNo = 2 /\ ~pages[Len(pages)].deleted

\* the bytes an undisturbed export writes for document j of the snapshot
SnapshotOutput(j) == Save(CopiedPages(exp.previews[exp.files[j].name].pages))

\* the downloads of individual mode for the first upTo documents of the snapshot
SnapshotDownloads(upTo) ==
  [j \in 1..upTo |-> PdfDownload(ModifiedName(exp.files[j].name), SnapshotOutput(j))]

\* the archive of archive mode for the documents of the snapshot
SnapshotArchive ==
  ZipDownload([j \in 1..Len(exp.files) |->
                 [name |-> ModifiedName(exp.files[j].name),
                  pages |-> SnapshotOutput(j).pages,
                  added |-> SnapshotOutput(j).added]])

\* what an export has delivered is what its snapshot determines
DeliveredFromSnapshot ==
  /\ exp.mode = "single" =>
       /\ Len(delivered) <= Len(exp.files)
       /\ delivered = SnapshotDownloads(Len(delivered))
       /\ exp.pc = "done" => Len(delivered) = Len(exp.files)
  /\ exp.mode = "zip" =>
       /\ delivered # <<>> => delivered = <<SnapshotArchive>>
       /\ exp.pc = "done" => delivered # <<>>

\* the snapshot is taken from the state when the export starts and is not
\* changed by any later step
SnapshotKept ==
  IF exports' # exports
  THEN /\ exp'.files = files
       /\ exp'.previews = previews
       /\ exp'.mode = downloadMode
  ELSE /\ exp'.files = exp.files
       /\ exp'.previews = exp.previews
       /\ exp'.mode = exp.mode

\* C23: an export works on the document set, the Store and the delivery
\* mode of the moment it was started: the snapshot stays as taken, and every
\* delivery is the one the snapshot determines, whatever toggles, range
\* deletes, reorders, appends and mode changes happen meanwhile
C23_ExportUsesSnapshot == []DeliveredFromSnapshot /\ [][SnapshotKept]_vars

\* C23 witness: an export in individual mode has delivered the first
\* document and is at the second, while the mode has been switched and the
\* list of the second document is no longer the one of the snapshot
C23_Witness ==
  /\ exp.mode = "single"
  /\ exp.pc \in {"open", "build"}
  /\ exp.k = 2
  /\ Len(delivered) = 1
  /\ downloadMode = "zip"
  /\ previews[exp.files[2].name].pages # exp.previews[exp.files[2].name].pages

\* an export has started and has not ended
ExportRunning == exp.pc \in {"open", "build", "zipgen"}

\* C24: loading is true exactly while an export is running, and while it is
\* true no export is started and the document set does not change
C24_BusyExcludesExportAndReset ==
  /\ [](loading <=> ExportRunning)
  /\ [][loading => (exports' = exports /\ files' = files)]_vars

\* C24 witness: a second export is running, started after the first one
\* had ended
C24_Witness ==
  /\ exports = 2
  /\ loading
  /\ ExportRunning
  /\ Len(files) > 0

====
